---- MODULE Spec2Model ----
(***************************************************************************)
(* Model of clogik_50_ser.cpp: the Cerebralogik v5.0 serial framing parser *)
(* (parser), the host->device command encoder (setParam) and the driver    *)
(* (main).  Bytes are integers 0..255; C integer types keep their width.   *)
(***************************************************************************)
EXTENDS Integers, Sequences, FiniteSets, TLC

VARIABLES
    Phase,       \* unsigned short Phase       (line 10)
    Crc,         \* unsigned short Crc         (line 11)
    RdyFlg,      \* unsigned short RdyFlg      (line 12)
    LocalIndex,  \* unsigned short LocalIndex  (line 13)
    MsgCRC,      \* unsigned short MsgCRC      (line 14)
    data1,       \* short data1[18]            (line 15)
    packet,      \* unsigned short packet      (line 16)
    out_gs,      \* records written to FILE *out_gs   (line 17)
    out_eeg,     \* records written to FILE *out_eeg  (line 17)
    out_err,     \* error lines written to stdout (lines 87, 122, 126 and 130)
    fileOk,      \* which of out_gs / out_eeg is a non-null FILE*
    fault,       \* the process was terminated by the CRT invalid-parameter handler
    serial,      \* Serial *serial: status and the operations performed on it
    pc,          \* position of main / of the calling harness
    t1,          \* int t1     (line 143)
    delta,       \* int delta  (line 146)
    size,        \* int size   (line 147)
    buffer,      \* char buffer[1000], the first `size` bytes of it
    clock,       \* GetTickCount(), milliseconds
    line,        \* bytes the device has sent that the host has not read yet
    fed,         \* history: every byte handed to parser() so far, in order
    args,        \* arguments of the setParam call under test
    ret,         \* <<code>> once main has returned, <<>> while it runs
    closed       \* what main has released: "serial", "out_eeg", "out_gs"

vars == <<Phase, Crc, RdyFlg, LocalIndex, MsgCRC, data1, packet, out_gs, out_eeg,
          out_err, fileOk, fault, serial, pc, t1, delta, size, buffer, clock,
          line, fed, args, ret, closed>>

parserVars == <<Phase, Crc, RdyFlg, LocalIndex, MsgCRC, data1, packet, out_gs,
                out_eeg, out_err, fault>>

\* ---------------------------------------------------------------- C arithmetic

\* unsigned short: arithmetic modulo 2^16
U16(x) == x % 65536

\* unsigned char: arithmetic modulo 2^8
U8(x) == x % 256

\* conversion of an int to short (two's complement, MSVC)
ToShort(x) == LET m == x % 65536 IN IF m >= 32768 THEN m - 65536 ELSE m

\* the low and the high 16 bits of the two's-complement pattern of an int
Lo16(x) == x % 65536
Hi16(x) == ((x - Lo16(x)) \div 65536) % 65536

\* the 32-bit pattern of an int as <<high half, low half>>: what %08X prints,
\* four hex digits each
Bits32(x) == <<Hi16(x), Lo16(x)>>

RECURSIVE BitOr(_, _)
\* bitwise OR of two non-negative bit patterns
BitOr(a, b) ==
    IF a = 0 THEN b
    ELSE IF b = 0 THEN a
    ELSE (IF a % 2 = 1 \/ b % 2 = 1 THEN 1 ELSE 0) + 2 * BitOr(a \div 2, b \div 2)

\* ---------------------------------------------------------------- parser()

\* the parser's globals as one value
G == [Phase |-> Phase, Crc |-> Crc, RdyFlg |-> RdyFlg, LocalIndex |-> LocalIndex,
      MsgCRC |-> MsgCRC, data1 |-> data1, packet |-> packet, out_gs |-> out_gs,
      out_eeg |-> out_eeg, out_err |-> out_err, fileOk |-> fileOk, fault |-> fault]

\* the globals as the program's static initialisation leaves them
G0 == [Phase |-> 0, Crc |-> 0, RdyFlg |-> 0, LocalIndex |-> 0, MsgCRC |-> 0,
       data1 |-> [w \in 0..17 |-> 0], packet |-> 0, out_gs |-> <<>>,
       out_eeg |-> <<>>, out_err |-> <<>>,
       fileOk |-> [gs |-> FALSE, eeg |-> FALSE], fault |-> FALSE]

\* the globals when main has opened both output files and parsing starts
GStart == [G0 EXCEPT !.fileOk = fileOk]

\* case(0): header 1st byte
\* mutant: Crc = rxbuf[i] is done for every byte, outside the if
Case0CrcAlways(s, b) ==
    IF b = 170 THEN [s EXCEPT !.Phase = 1, !.Crc = 170] ELSE [s EXCEPT !.Crc = b]

Case0(s, b) ==
    IF b = 170 THEN [s EXCEPT !.Phase = 1, !.Crc = 170] ELSE s

\* case(1): header 2nd byte; there is no else branch, Phase stays 1
Case1(s, b) ==
    IF b = 85
    THEN [s EXCEPT !.Phase = 2, !.RdyFlg = 0, !.Crc = U16(s.Crc + 85), !.LocalIndex = 0]
    ELSE s

\* mutant: the high byte is OR-ed into the slot instead of overwriting it
StoreHighOr(old, b) == ToShort(BitOr(Lo16(old), (b % 256) * 256))

\* data1[indx] = (short)((buffer[i] & 0xff) << 8)
StoreHigh(old, b) == ToShort((b % 256) * 256)

\* data1[indx] |= buffer[i]
OrLow(old, b) == ToShort(BitOr(Lo16(old), b))

\* mutant: the payload is taken to end one byte later
PayloadDoneLate(li) == li = 37

\* if (LocalIndex == 36)
PayloadDone(li) == li = 36

\* case(2): data collection
Case2(s, b) ==
    LET indx == s.LocalIndex \div 2
        word == IF s.LocalIndex % 2 = 0
                THEN StoreHigh(s.data1[indx], b)
                ELSE OrLow(s.data1[indx], b)
        li   == U16(s.LocalIndex + 1)
    IN  [s EXCEPT !.data1 = [s.data1 EXCEPT ![indx] = word],
                  !.LocalIndex = li,
                  !.Crc = U16(s.Crc + b),
                  !.Phase = IF PayloadDone(li) THEN 3 ELSE 2]

\* mutant: the first checksum byte is stored without the shift
Case3NoShift(s, b) ==
    [s EXCEPT !.MsgCRC = U16(b % 256), !.Phase = 4]

\* case(3): first checksum byte
Case3(s, b) ==
    [s EXCEPT !.MsgCRC = U16((b % 256) * 256), !.Phase = 4]

\* mutant: the GS line is printed with the counter as it was before packet++
GsRecordPreIncrement(s) == <<U16(s.packet + 65535), s.data1[3], s.data1[16]>>

\* the fields of the GS line, fprintf_s(out_gs, "%d, %d, %d ", packet, data1[3], data1[16])
GsRecord(s) == <<s.packet, s.data1[3], s.data1[16]>>

\* mutant: the EEG line is printed with the counter as it was before packet++
EegRecordPreIncrement(s) ==
    <<U16(s.packet + 65535), s.data1[0], s.data1[0] * 76, Bits32(s.data1[9])>>

\* the fields of the EEG line, fprintf_s(out_eeg, "%d, %d, %f, %08X\n", ...):
\* packet, data1[0], (float)data1[0]*0.076 (here in thousandths), and data1[9]
\* promoted to int and printed as eight hex digits
EegRecord(s) == <<s.packet, s.data1[0], s.data1[0] * 76, Bits32(s.data1[9])>>

\* mutant: the sentinel is looked for in word 3
GsWantedWord3(d) == d[3] # 255

\* if (data1[16] != 255)
GsWanted(d) == d[16] # 255

\* mutant: the counter stops at its largest value
NextPacketSaturating(p) == IF p >= 65535 THEN 65535 ELSE p + 1

\* packet++ on an unsigned short
NextPacket(p) == U16(p + 1)

\* the body of if (MsgCRC == Crc); packet++ comes before both fprintf_s calls, and a
\* fprintf_s on a null FILE* ends the process in the CRT invalid-parameter handler
Valid(s) ==
    LET s1 == [s EXCEPT !.RdyFlg = 1, !.packet = NextPacket(@)]
    IN  IF GsWanted(s1.data1) /\ ~s1.fileOk.gs THEN [s1 EXCEPT !.fault = TRUE]
        ELSE LET s2 == IF GsWanted(s1.data1)
                       THEN [s1 EXCEPT !.out_gs = Append(@, GsRecord(s1))]
                       ELSE s1
             IN  IF ~s2.fileOk.eeg THEN [s2 EXCEPT !.fault = TRUE]
                 ELSE [s2 EXCEPT !.out_eeg = Append(@, EegRecord(s2))]

\* mutant: the error branch counts the packet before reporting it
InvalidAfterIncrement(s) ==
    [s EXCEPT !.packet = U16(@ + 1), !.out_err = Append(@, U16(s.packet + 1))]

\* the else branch: fprintf_s(stdout, "Error packet %d\n", packet)
Invalid(s) ==
    [s EXCEPT !.out_err = Append(@, s.packet)]

\* if (MsgCRC == Crc)
ChecksumOk(s) == s.MsgCRC = s.Crc

\* case(4): second checksum byte; Phase = 0 follows both branches
Case4(s, b) ==
    LET s1 == [s EXCEPT !.MsgCRC = U16(s.MsgCRC + b)]
        s2 == IF ChecksumOk(s1) THEN Valid(s1) ELSE Invalid(s1)
    IN  IF s2.fault THEN s2 ELSE [s2 EXCEPT !.Phase = 0]

\* the switch (Phase) of one loop iteration
ParserByte(s, b) ==
    IF s.fault THEN s
    ELSE CASE s.Phase = 0 -> Case0(s, b)
           [] s.Phase = 1 -> Case1(s, b)
           [] s.Phase = 2 -> Case2(s, b)
           [] s.Phase = 3 -> Case3(s, b)
           [] s.Phase = 4 -> Case4(s, b)
           [] OTHER -> s

RECURSIVE ParserLoop(_, _, _, _)
\* for (i = 0; i < size; i++): iterations lo..hi (1-based) in order, the range
\* split in halves so that the evaluation depth stays logarithmic
ParserLoop(s, buf, lo, hi) ==
    IF lo > hi THEN s
    ELSE IF lo = hi THEN ParserByte(s, buf[lo])
    ELSE LET mid == (lo + hi) \div 2
             h   == ParserLoop(s, buf, lo, mid)
         IN  IF h.fault THEN h ELSE ParserLoop(h, buf, mid + 1, hi)

\* mutant: every call restarts the state machine
ParserEntryResets(s) == [s EXCEPT !.Phase = 0]

\* the state in which parser() starts its loop: the globals as the caller left them
ParserEntry(s) == s

\* void parser(int size, unsigned char *buffer)
parser(s, buf) == ParserLoop(ParserEntry(s), buf, 1, Len(buf))

\* ---------------------------------------------------------------- the device

GarbageLen == 43
MaxSegs == 2
MidChunk == 39
BufSize == 1000

RECURSIVE SumBytes(_, _, _)
\* sum of bytes lo..hi of a sequence
SumBytes(q, lo, hi) ==
    IF lo > hi THEN 0
    ELSE IF lo = hi THEN q[lo]
    ELSE SumBytes(q, lo, (lo + hi) \div 2) + SumBytes(q, (lo + hi) \div 2 + 1, hi)

\* a device->host frame: AA 55, 36 payload bytes, 16-bit sum high byte, low byte
Frame(payload) ==
    LET body == <<170, 85>> \o payload
        sum  == SumBytes(body, 1, Len(body)) % 65536
    IN  body \o <<sum \div 256, sum % 256>>

\* 36 payload bytes from 18 word patterns (0..65535), high byte first
WordsToBytes(w) ==
    [j \in 1..36 |-> IF j % 2 = 1 THEN w[(j - 1) \div 2] \div 256
                                   ELSE w[(j - 1) \div 2] % 256]

PayloadOnes == [j \in 1..36 |-> 1]

EdgeWords ==
    [k \in 0..17 |-> CASE k = 0 -> 32768      \* 80 00
                       [] k = 1 -> 32767      \* 7F FF
                       [] k = 3 -> 170        \* 00 AA
                       [] k = 9 -> 32769      \* 80 01
                       [] k = 16 -> 255       \* 00 FF: the GS sentinel
                       [] k = 17 -> 43605     \* AA 55
                       [] OTHER -> 0]

PayloadEdge == WordsToBytes(EdgeWords)

\* all words 0 but word 16, which holds the GS sentinel
PayloadQuiet == WordsToBytes([k \in 0..17 |-> IF k = 16 THEN 255 ELSE 0])

FrameOnes == Frame(PayloadOnes)
FrameEdge == Frame(PayloadEdge)
FrameQuiet == Frame(PayloadQuiet)

\* bytes in a frame: AA 55, 36 of payload, 2 of checksum
FrameLen == Len(FrameOnes)

\* a frame whose final byte is flipped
BadFrame == [FrameOnes EXCEPT ![Len(FrameOnes)] = 255 - @]

\* AA, a stray byte, then 55, payload and the checksum of AA 55 payload
GapFrame == <<170, 0>> \o Tail(FrameOnes)

Garbage == [j \in 1..GarbageLen |-> 255]
FalseMagic == <<170, 86>>
LoneAA == <<170>>

Segments == {FrameOnes, FrameEdge, BadFrame, GapFrame, Garbage, FalseMagic, LoneAA}

RECURSIVE StreamsOf(_)
\* every concatenation of 1..n segments
StreamsOf(n) ==
    IF n = 0 THEN {}
    ELSE Segments \cup {p \o s : p \in StreamsOf(n - 1), s \in Segments}

Streams == StreamsOf(MaxSegs)

\* ---------------------------------------------------------------- calling parser()

\* the globals at program start
SetGInit ==
    /\ Phase = G0.Phase
    /\ Crc = G0.Crc
    /\ RdyFlg = G0.RdyFlg
    /\ LocalIndex = G0.LocalIndex
    /\ MsgCRC = G0.MsgCRC
    /\ data1 = G0.data1
    /\ packet = G0.packet
    /\ out_gs = G0.out_gs
    /\ out_eeg = G0.out_eeg
    /\ out_err = G0.out_err
    /\ fault = G0.fault

\* the globals after a call, written back
SetG(t) ==
    /\ Phase' = t.Phase
    /\ Crc' = t.Crc
    /\ RdyFlg' = t.RdyFlg
    /\ LocalIndex' = t.LocalIndex
    /\ MsgCRC' = t.MsgCRC
    /\ data1' = t.data1
    /\ packet' = t.packet
    /\ out_gs' = t.out_gs
    /\ out_eeg' = t.out_eeg
    /\ out_err' = t.out_err
    /\ fault' = t.fault

Take(q, n) == SubSeq(q, 1, IF n < Len(q) THEN n ELSE Len(q))
Drop(q, n) == SubSeq(q, (IF n < Len(q) THEN n ELSE Len(q)) + 1, Len(q))

InitParser ==
    /\ SetGInit
    /\ fileOk = [gs |-> TRUE, eeg |-> TRUE]
    /\ ret = <<>>
    /\ closed = {}
    /\ serial = [status |-> "ERR_OK", ops |-> <<>>]
    /\ pc = "feed"
    /\ t1 = 0 /\ delta = 0 /\ size = 0 /\ buffer = <<>> /\ clock = 0
    /\ line \in Streams
    /\ fed = <<>>
    /\ args = <<0, 0>>

\* parser(size, buffer) on the next n bytes of the stream
Feed(n) ==
    /\ pc = "feed"
    /\ ~fault
    /\ line # <<>>
    /\ buffer' = Take(line, n)
    /\ size' = Len(buffer')
    /\ line' = Drop(line, n)
    /\ SetG(parser(G, buffer'))
    /\ fed' = fed \o buffer'
    /\ UNCHANGED <<fileOk, serial, pc, t1, delta, clock, args, ret, closed>>

NextParser == \E n \in {1, MidChunk, BufSize} : Feed(n)

SpecParser == InitParser /\ [][NextParser]_vars

\* ---------------------------------------------------------------- setParam()

\* mutant: the checksum is kept in an int and not truncated to a byte
CmdChecksumWide(cmd) == cmd[1] + cmd[2] + cmd[3] + cmd[4] + cmd[5] + cmd[6]

\* unsigned char CRC = cmd[0] + cmd[1] + cmd[2] + cmd[3] + cmd[4] + cmd[5]
CmdChecksum(cmd) == U8(cmd[1] + cmd[2] + cmd[3] + cmd[4] + cmd[5] + cmd[6])

\* cmd[3] = (CommandType << 4) | CommandOpt, stored in an unsigned char
CmdByte3(t, o) == U8(BitOr(t * 16, o))

\* the 8 bytes setParam builds
SetParamFrame(t, o) ==
    LET head == <<170, 85, 0, CmdByte3(t, o), 0, 0>>
    IN  head \o <<CmdChecksum(head), 3>>

\* serial->write(cmd, sizeof(cmd)): one write of the whole frame
SerialWrite(sp, bytes) == [sp EXCEPT !.ops = Append(@, <<"write", bytes>>)]

\* void setParam(unsigned char CommandType, unsigned char CommandOpt)
setParam(sp, t, o) == SerialWrite(sp, SetParamFrame(t, o))

Nibble == 0..15

InitCmd ==
    /\ SetGInit
    /\ fileOk = G0.fileOk
    /\ ret = <<>>
    /\ closed = {}
    /\ serial = [status |-> "ERR_OK", ops |-> <<>>]
    /\ pc = "call"
    /\ t1 = 0 /\ delta = 0 /\ size = 0 /\ buffer = <<>> /\ clock = 0
    /\ line = <<>>
    /\ fed = <<>>
    /\ args \in Nibble \X Nibble

\* one call setParam(args[1], args[2])
CallSetParam ==
    /\ pc = "call"
    /\ serial' = setParam(serial, args[1], args[2])
    /\ pc' = "returned"
    /\ UNCHANGED <<parserVars, fileOk, t1, delta, size, buffer, clock, line, fed, args, ret, closed>>

NextCmd == CallSetParam

SpecCmd == InitCmd /\ [][NextCmd]_vars

\* ---------------------------------------------------------------- main()

WarmUpMs == 10000
QuotaPackets == 19200
TickMs == 5000
MaxTicks == 3

\* what the device sends while the driver runs
DriverStreams ==
    {FrameOnes \o FalseMagic, FalseMagic \o FrameEdge, BadFrame \o LoneAA, GapFrame}

\* serial->setFuncState(f)
SetFuncState(sp, f) == [sp EXCEPT !.ops = Append(@, <<f>>)]

\* mutant: the three commands go out in the opposite order
SendFiltersReversed(sp) == setParam(setParam(setParam(sp, 3, 1), 2, 1), 1, 1)

\* setParam(0x1, 1); setParam(0x2, 1); setParam(0x3, 1)
SendFilters(sp) == setParam(setParam(setParam(sp, 1, 1), 2, 1), 3, 1)

\* mutant: the gate opens at 10 s sharp
WarmedUpAtTen(d) == d >= WarmUpMs

\* if (delta > 10000)
WarmedUp(d) == d > WarmUpMs

\* how many lines of stdout a whole collection keeps
MaxErrLines == 60

\* s with out_err cut down to the lines printed last
LastLines(s) ==
    IF Len(s.out_err) <= MaxErrLines THEN s
    ELSE [s EXCEPT !.out_err = SubSeq(@, Len(@) - MaxErrLines + 1, Len(@))]

\* mutant: the loop is left as soon as the quota is met
QuotaReachedAt(p) == p >= QuotaPackets

\* if (packet > 160 * 60 * 2)
QuotaReached(p) == p > QuotaPackets

Init ==
    /\ SetGInit
    /\ fileOk = G0.fileOk
    /\ ret = <<>>
    /\ closed = {}
    /\ serial = [status |-> "closed", ops |-> <<>>]
    /\ pc = "open"
    /\ t1 = 0 /\ delta = 0 /\ size = 0 /\ buffer = <<>> /\ clock = 0
    /\ line \in DriverStreams
    /\ fed = <<>>
    /\ args = <<0, 0>>

\* serial = new Serial(comm, 115200) with status ERR_OK
OpenSerial ==
    /\ pc = "open"
    /\ serial' = [serial EXCEPT !.status = "ERR_OK"]
    /\ pc' = "files"
    /\ UNCHANGED <<parserVars, fileOk, t1, delta, size, buffer, clock, line, fed, args, ret, closed>>

\* if (serial->status() != Serial::ERR_OK) { ...; return -1; }
ReturnOnOpen(status) == IF status # "ERR_OK" THEN <<-1>> ELSE <<>>

\* serial = new Serial(...) with another status: printf("Serial error %d") and return -1
OpenSerialFails ==
    /\ pc = "open"
    /\ serial' = [serial EXCEPT !.status = "ERR_OPEN"]
    /\ out_err' = Append(out_err, <<"Serial error", serial'.status>>)
    /\ pc' = "exited"
    /\ ret' = ReturnOnOpen(serial'.status)
    /\ UNCHANGED <<Phase, Crc, RdyFlg, LocalIndex, MsgCRC, data1, packet, out_gs, out_eeg,
                   fault, fileOk, t1, delta, size, buffer, clock, line, fed, args, closed>>

\* what main prints when a fopen_s fails; both calls print the same text
OpenErrors(ok) ==
    (IF ok.eeg THEN <<>> ELSE << <<"Error output_eeg">> >>)
        \o (IF ok.gs THEN <<>> ELSE << <<"Error output_eeg">> >>)

\* the two fopen_s calls; a failure is reported and main goes on
OpenFiles ==
    /\ pc = "files"
    /\ \E e \in BOOLEAN, g \in BOOLEAN : fileOk' = [gs |-> g, eeg |-> e]
    /\ out_err' = out_err \o OpenErrors(fileOk')
    /\ pc' = "reset"
    /\ UNCHANGED <<Phase, Crc, RdyFlg, LocalIndex, MsgCRC, data1, packet, out_gs, out_eeg,
                   fault, serial, t1, delta, size, buffer, clock, line, fed, args, ret, closed>>

\* Phase = 0; Sleep(200); serial->setFuncState(CLRRTS); Sleep(1500)
ResetModule ==
    /\ pc = "reset"
    /\ Phase' = 0
    /\ serial' = SetFuncState(serial, "CLRRTS")
    /\ clock' = clock + 200 + 1500
    /\ pc' = "release"
    /\ UNCHANGED <<Crc, RdyFlg, LocalIndex, MsgCRC, data1, packet, out_gs, out_eeg,
                   out_err, fault, fileOk, t1, delta, size, buffer, line, fed, args, ret, closed>>

\* serial->setFuncState(SETRTS); Sleep(5000)
ReleaseReset ==
    /\ pc = "release"
    /\ serial' = SetFuncState(serial, "SETRTS")
    /\ clock' = clock + 5000
    /\ pc' = "filters"
    /\ UNCHANGED <<parserVars, fileOk, t1, delta, size, buffer, line, fed, args, ret, closed>>

\* setParam(0x1, 1); setParam(0x2, 1); setParam(0x3, 1); Sleep(200)
SetFilters ==
    /\ pc = "filters"
    /\ serial' = SendFilters(serial)
    /\ clock' = clock + 200
    /\ pc' = "start"
    /\ UNCHANGED <<parserVars, fileOk, t1, delta, size, buffer, line, fed, args, ret, closed>>

\* t1 = GetTickCount()
StartCollect ==
    /\ pc = "start"
    /\ t1' = clock
    /\ pc' = "tick"
    /\ UNCHANGED <<parserVars, fileOk, serial, delta, size, buffer, clock, line, fed, args, ret, closed>>

\* delta = GetTickCount() - t1, after d more milliseconds have gone by
LoopTick(d) ==
    /\ pc = "tick"
    /\ clock + d - t1 <= MaxTicks * TickMs
    /\ clock' = clock + d
    /\ delta' = clock' - t1
    /\ pc' = "read"
    /\ UNCHANGED <<parserVars, fileOk, serial, t1, size, buffer, line, fed, args, ret, closed>>

\* size = serial->read(buffer, 1000, false): n of the waiting bytes, at most 1000
LoopRead(n) ==
    /\ pc = "read"
    /\ n <= BufSize
    /\ buffer' = Take(line, n)
    /\ size' = Len(buffer')
    /\ line' = Drop(line, n)
    /\ pc' = "body"
    /\ UNCHANGED <<parserVars, fileOk, serial, t1, delta, clock, fed, args, ret, closed>>

\* if (size != 0) { if (delta > 10000) parser(size, buffer);
\*                  if (packet > 160*60*2) break; }
\* keepAll: fed and out_err record every byte given to parser() and every line
\* printed; otherwise the last chunk only and the last lines only
BodyStep(keepAll) ==
    /\ pc = "body"
    /\ LET parsed == size # 0 /\ WarmedUp(delta)
           t == IF parsed THEN parser(G, buffer) ELSE G
       IN  /\ SetG(IF keepAll THEN t ELSE LastLines(t))
           /\ fed' = IF ~parsed THEN fed ELSE IF keepAll THEN fed \o buffer ELSE buffer
           /\ pc' = IF t.fault THEN "aborted"
                    ELSE IF size # 0 /\ QuotaReached(t.packet) THEN "finish"
                    ELSE "tick"
    /\ UNCHANGED <<fileOk, serial, t1, delta, size, buffer, clock, line, args, ret, closed>>

LoopBody == BodyStep(TRUE)

Next ==
    \/ OpenSerial
    \/ OpenSerialFails
    \/ OpenFiles
    \/ ResetModule
    \/ ReleaseReset
    \/ SetFilters
    \/ StartCollect
    \/ \E d \in {0, TickMs} : LoopTick(d)
    \/ \E n \in {0, 1, MidChunk, BufSize} : LoopRead(n)
    \/ LoopBody

Spec == Init /\ [][Next]_vars

\* ---------------------------------------------------------------- main, a whole collection
\* The module sends frame after frame without end: line holds one period of
\* what it will send next, starting at the byte that comes first.

\* the period q seen from k bytes further on
Rotate(q, k) ==
    IF k % Len(q) = 0 THEN q
    ELSE [i \in 1..Len(q) |-> q[((i - 1 + k) % Len(q)) + 1]]

\* the next n bytes of the endless stream whose period is q
Repeat(q, n) ==
    IF n <= Len(q) THEN SubSeq(q, 1, n)
    ELSE [i \in 1..n |-> q[((i - 1) % Len(q)) + 1]]

\* where in a frame the module may be when the port is opened, besides its start
StartOffset == 17

RunStreams == {FrameEdge, Rotate(FrameEdge, StartOffset), Rotate(FrameOnes, StartOffset)}

\* a read that ends in the middle of a frame
HalfFrame == FrameLen \div 2

InitRun ==
    /\ SetGInit
    /\ fileOk = G0.fileOk
    /\ ret = <<>>
    /\ closed = {}
    /\ serial = [status |-> "closed", ops |-> <<>>]
    /\ pc = "open"
    /\ t1 = 0 /\ delta = 0 /\ size = 0 /\ buffer = <<>> /\ clock = 0
    /\ line \in RunStreams
    /\ fed = <<>>
    /\ args = <<0, 0>>

\* size = serial->read(buffer, 1000, false) from the endless stream; reads that
\* are neither empty nor full are followed while the tick count is still t1
LoopReadStream(n) ==
    /\ pc = "read"
    /\ n <= BufSize
    /\ n \in {0, BufSize} \/ delta = 0
    /\ buffer' = Repeat(line, n)
    /\ size' = n
    /\ line' = Rotate(line, n)
    /\ pc' = "body"
    /\ UNCHANGED <<parserVars, fileOk, serial, t1, delta, clock, fed, args, ret, closed>>

LoopBodyRun == BodyStep(FALSE)

\* how many iterations LoopRounds takes at once
RoundsAtOnce == 768

\* one iteration of the loop body on a full buffer, past the warm-up:
\* r.g are the globals, r.at is where main is afterwards, r.n counts iterations
OneRound(r, q) ==
    LET t == LastLines(parser(r.g, Repeat(q, BufSize)))
    IN  [g |-> t, n |-> r.n + 1,
         at |-> IF t.fault THEN "aborted"
                ELSE IF QuotaReached(t.packet) THEN "finish"
                ELSE "tick"]

\* the loop has been left
Stopped(r) == r.at # "tick"

\* k iterations in a row, each reading a full buffer from the stream of period q;
\* the loop stops at the first iteration that does not come back to its head.
\* When m iterations have left the globals and the stream as they were, every
\* further m do the same, and only the remainder of k is gone through.
RECURSIVE Rounds(_, _, _)
Rounds(r, q, k) ==
    IF k = 0 \/ Stopped(r) THEN r
    ELSE IF k = 1 THEN OneRound(r, q)
    ELSE LET m  == k \div 2
             h  == Rounds(r, q, m)
             q2 == Rotate(q, m * BufSize)
             left == (k - m) % m
         IN  IF Stopped(h) THEN h
             ELSE IF h.g = r.g /\ q2 = q
                  THEN Rounds([h EXCEPT !.n = r.n + k - left], q, left)
                  ELSE Rounds(h, q2, k - m)

\* delta = GetTickCount() - t1 while that leaves the warm-up as it was
LoopTickRun(d) ==
    /\ WarmedUp(clock + d - t1) = WarmedUp(delta)
    /\ LoopTick(d)

\* the first iterations after the warm-up has run out, k at most, taken in one
\* step: d more milliseconds go by, then each iteration reads a full buffer and
\* hands it to parser() while the tick count stays where it is
LoopRounds(d, k) ==
    /\ pc = "tick"
    /\ ~WarmedUp(delta) /\ WarmedUp(clock + d - t1)
    /\ clock + d - t1 <= MaxTicks * TickMs
    /\ \E r \in {Rounds([g |-> G, n |-> 0, at |-> "tick"], line, k)} :
           /\ SetG(r.g)
           /\ pc' = r.at
           /\ buffer' = Repeat(Rotate(line, (r.n - 1) * BufSize), BufSize)
           /\ fed' = buffer'
           /\ line' = Rotate(line, r.n * BufSize)
    /\ clock' = clock + d
    /\ delta' = clock' - t1
    /\ size' = BufSize
    /\ UNCHANGED <<fileOk, serial, t1, args, ret, closed>>

\* fclose(f): a null FILE* ends the process in the CRT's invalid-parameter handler
CloseFaults(ok) == ~ok.eeg \/ ~ok.gs

\* after the loop: cout "End"; delete serial; fclose(out_eeg); fclose(out_gs);
\* main then falls off its end, which returns 0
Finish ==
    /\ pc = "finish"
    /\ serial' = [serial EXCEPT !.status = "deleted"]
    /\ closed' = {"serial"} \cup (IF fileOk.eeg THEN {"out_eeg"} ELSE {})
                            \cup (IF fileOk.eeg /\ fileOk.gs THEN {"out_gs"} ELSE {})
    /\ fault' = CloseFaults(fileOk)
    /\ pc' = IF fault' THEN "aborted" ELSE "exited"
    /\ ret' = IF fault' THEN ret ELSE <<0>>
    /\ UNCHANGED <<Phase, Crc, RdyFlg, LocalIndex, MsgCRC, data1, packet, out_gs, out_eeg,
                   out_err, fileOk, t1, delta, size, buffer, clock, line, fed, args>>

NextRun ==
    \/ OpenSerial
    \/ OpenSerialFails
    \/ OpenFiles
    \/ ResetModule
    \/ ReleaseReset
    \/ SetFilters
    \/ StartCollect
    \/ \E d \in {0, TickMs} : LoopTickRun(d)
    \/ \E n \in {0, HalfFrame, BufSize} : LoopReadStream(n)
    \/ LoopBodyRun
    \/ LoopRounds(TickMs, RoundsAtOnce)
    \/ Finish

SpecRun == InitRun /\ [][NextRun]_vars

\* main is at a statement it can carry out: it has not returned or been ended
CanStep == pc \notin {"exited", "aborted"}

\* main moves on to its next statement
Step == CanStep /\ pc' \in {"files", "reset", "release", "filters", "start", "tick",
                              "read", "body", "finish", "exited", "aborted"}

\* the tick count has moved on when the loop reads it
TimePasses ==
    /\ pc = "tick" /\ clock + TickMs - t1 <= MaxTicks * TickMs
    /\ clock' = clock + TickMs

\* the thread keeps running, time goes by, and the module keeps sending
SpecRunFair ==
    /\ SpecRun
    /\ WF_pc(Step)
    /\ SF_clock(TimePasses)
    /\ SF_vars(LoopReadStream(BufSize))

\* ---------------------------------------------------------------- properties of parser()

\* the step is one call of parser() with a single byte
OneByteCall == size' = 1 /\ Len(fed') = Len(fed) + 1

\* the byte of a one-byte call
NewByte == fed'[Len(fed')]

\* two's-complement reading of a 16-bit pattern
Signed16(u) == IF u >= 32768 THEN u - 65536 ELSE u

\* C1: whenever a byte validates a packet (the packet counter moves on the byte at
\* position k), the 16-bit sum of the 38 bytes at k-39..k-2 equals
\* 256*byte[k-1] + byte[k].
C1_ChecksumOfPreceding38 ==
    [][(OneByteCall /\ packet' # packet) =>
          LET k == Len(fed')
          IN  /\ k >= 40
              /\ SumBytes(fed', k - 39, k - 2) % 65536 = 256 * fed'[k - 1] + fed'[k]]_vars

\* C2: however the stream is cut into chunks, the parser's state, packet counter,
\* EEG records, GS records and error reports after the calls are those of one call
\* on the whole stream.
C2_ChunkIndependence == G = parser(GStart, fed)

\* two frames were validated and the last call carried the final checksum byte alone
C2_Witness ==
    /\ size = 1 /\ Len(fed) = 2 * Len(FrameOnes) /\ packet = 2 /\ Len(out_eeg) = 2

\* C3: in AwaitMagic2 (Phase 1) any byte other than 0x55 moves the parser back to
\* AwaitMagic1 (Phase 0).
C3_NonMagic2DropsBack ==
    [][(OneByteCall /\ Phase = 1 /\ NewByte # 85) => Phase' = 0]_vars

\* the parser's Phase after the first k bytes fed
PhaseAfter(k) == parser(GStart, SubSeq(fed, 1, k)).Phase

\* byte j was the byte after an accepted 0xAA and was not 0x55, or was the second
\* checksum byte of a frame whose checksum did not match
Malformed(j) ==
    LET s == parser(GStart, SubSeq(fed, 1, j - 1))
    IN  \/ s.Phase = 1 /\ fed[j] # 85
        \/ s.Phase = 4 /\ U16(s.MsgCRC + fed[j]) # s.Crc

\* C4: once a candidate frame has turned out malformed, the parser is back in
\* AwaitMagic1 (Phase 0) after at most 42 further bytes.
C4_BoundedRecovery ==
    \A j \in 1..Len(fed) :
        (Len(fed) = j + 42 /\ Malformed(j)) => \E k \in j..(j + 42) : PhaseAfter(k) = 0

\* C5: a second checksum byte that makes msg_crc differ from acc reports exactly one
\* error citing the packet counter, leaves the counter and both output streams as they
\* were and puts the parser in AwaitMagic1; a first frame whose final byte is altered
\* yields no record and one error for packet counter 0.
C5_ChecksumMismatch ==
    /\ [](fed = BadFrame =>
            out_eeg = <<>> /\ out_gs = <<>> /\ out_err = <<0>> /\ packet = 0 /\ Phase = 0)
    /\ [][(OneByteCall /\ Phase = 4 /\ U16(MsgCRC + NewByte) # Crc) =>
            /\ out_err' = Append(out_err, packet)
            /\ packet' = packet
            /\ out_eeg' = out_eeg
            /\ out_gs' = out_gs
            /\ Phase' = 0]_vars

\* the altered frame was fed byte by byte and its last byte has been consumed
C5_Witness == fed = BadFrame /\ size = 1 /\ out_err = <<0>>

\* C6: the EEG stream holds one record per validated packet, the k-th carrying the
\* packet counter k (the counter after its increment).
C6_EegCountIsPacket ==
    /\ Len(out_eeg) = packet
    /\ \A k \in 1..Len(out_eeg) : out_eeg[k][1] = k

\* two packets validated, with garbage or a rejected frame in between or around
C6_Witness == packet = 2 /\ Len(out_eeg) = 2 /\ Len(fed) > 2 * Len(FrameOnes)

\* C7: a validated packet appends one GS record (counter, word 3, word 16) exactly
\* when its word 16 is not 255; with word 16 = 255 the EEG record is still written and
\* the GS stream stays; a byte that validates nothing leaves the GS stream alone.
C7_GsIffWord16 ==
    [][OneByteCall =>
          /\ (packet' # packet /\ data1[16] # 255) =>
                out_gs' = Append(out_gs, <<packet', data1[3], data1[16]>>)
          /\ (packet' # packet /\ data1[16] = 255) =>
                out_gs' = out_gs /\ Len(out_eeg') = Len(out_eeg) + 1
          /\ packet' = packet => out_gs' = out_gs]_vars

\* a packet with word 16 = 255 was validated after one with word 16 # 255
C7_Witness ==
    /\ size = 1 /\ Phase = 0 /\ data1[16] = 255
    /\ Len(out_eeg) = 2 /\ Len(out_gs) = 1 /\ out_eeg[2][1] = 2

\* C8: once the 36 payload bytes P of a frame are in, every word w is the signed
\* 16-bit reading of 256*P[2w] + P[2w+1], whatever earlier frames left in the buffer;
\* the validating byte leaves the words alone and the records carry them.
C8_WordDecoding ==
    /\ []((Phase \in {3, 4}) =>
            LET n == Len(fed) - (Phase - 3)
            IN  \A w \in 0..17 :
                  data1[w] = Signed16(256 * fed[n - 35 + 2 * w] + fed[n - 34 + 2 * w]))
    /\ [][(OneByteCall /\ packet' # packet) =>
            LET n == Len(fed) - 1
            IN  /\ Phase = 4
                /\ data1' = data1
                /\ out_eeg'[Len(out_eeg')][2] = Signed16(256 * fed[n - 35] + fed[n - 34])]_vars

\* 80 00 decoded to -32768 and 7F FF to 32767 over the words of an earlier packet
C8_Witness ==
    /\ Phase = 4 /\ packet >= 1 /\ out_eeg[1][2] = 257
    /\ data1[0] = -32768 /\ data1[1] = 32767

\* ---------------------------------------------------------------- properties of setParam()

\* C9: for t, o in 0..15 setParam(t, o) performs exactly one write, of the 8 bytes
\* AA 55 00 B 00 00 C 03 with B = (t << 4) | (o & 0x0F) and C = (0xAA + 0x55 + B) & 0xFF.
C9_SetParamFrame ==
    pc = "returned" =>
        LET B == 16 * args[1] + (args[2] % 16)
            C == (170 + 85 + B) % 256
        IN  serial.ops = << <<"write", <<170, 85, 0, B, 0, 0, C, 3>>>> >>

\* setParam(15, 15) has returned: B = FF, and the sum of bytes 0..5 exceeds one byte
C9_Witness == pc = "returned" /\ args = <<15, 15>> /\ Len(serial.ops) = 1

\* ---------------------------------------------------------------- properties of main()

\* C10: an iteration of the collection loop whose chunk was read with the elapsed time
\* not above 10 s leaves the parser phase, accumulator, payload offset, word buffer,
\* packet counter and both output streams as they were and feeds nothing to the
\* parser; bytes reach the parser only with more than 10 s elapsed, and until the
\* first one does the parser is in AwaitMagic1 with the packet counter at 0.
C10_WarmUpGate ==
    /\ []((fed = <<>> /\ pc \in {"tick", "read", "body"}) =>
            Phase = 0 /\ packet = 0 /\ out_eeg = <<>> /\ out_gs = <<>>)
    /\ [][(pc = "body" /\ delta <= 10000) =>
            UNCHANGED <<Phase, Crc, LocalIndex, data1, packet, out_gs, out_eeg, fed>>]_vars
    /\ [][fed' # fed => (delta > 10000 /\ clock - t1 > 10000)]_vars

\* a non-empty chunk was read at exactly 10 s and the iteration is over
C10_Witness ==
    /\ pc = "tick" /\ delta = 10000 /\ size > 0 /\ fed = <<>> /\ Len(line) < 40


\* ---------------------------------------------------------------- parser(), a long stream
\* The harness of SpecParser behind a first step that calls parser() again and
\* again, each time on one well-formed frame, which brings the packet counter
\* near its limit.

\* calls in the first step: this many, or one more
CallsAtOnce == 65535

WrapStream == FrameEdge \o FrameEdge \o FrameOnes \o BadFrame

InitWrap ==
    /\ SetGInit
    /\ fileOk = [gs |-> TRUE, eeg |-> TRUE]
    /\ ret = <<>>
    /\ closed = {}
    /\ serial = [status |-> "ERR_OK", ops |-> <<>>]
    /\ pc = "feed"
    /\ t1 = 0 /\ delta = 0 /\ size = 0 /\ buffer = <<>> /\ clock = 0
    /\ line = WrapStream
    /\ fed = <<>>
    /\ args = <<0, 0>>

\* k calls of parser() in a row, each on a buffer that holds the frame f
RECURSIVE Calls(_, _, _)
Calls(s, f, k) ==
    IF k = 0 \/ s.fault THEN s
    ELSE IF k = 1 THEN parser(s, f)
    ELSE LET h == Calls(s, f, k \div 2)
         IN  IF h.fault THEN h ELSE Calls(h, f, k - (k \div 2))

\* the first k calls taken in one step; buffer and fed keep what the last call got
FeedCalls(k) ==
    /\ pc = "feed"
    /\ fed = <<>>
    /\ \E t \in {Calls(G, FrameQuiet, k)} : SetG(t)
    /\ buffer' = FrameQuiet
    /\ size' = FrameLen
    /\ fed' = buffer'
    /\ UNCHANGED <<fileOk, serial, pc, t1, delta, clock, line, args, ret, closed>>

NextWrap ==
    \/ \E k \in {CallsAtOnce, CallsAtOnce + 1} : FeedCalls(k)
    \/ \E n \in {1, FrameLen} : Feed(n)

SpecWrap == InitWrap /\ [][NextWrap]_vars

\* ---------------------------------------------------------------- properties of main's bring-up

\* what the port has been asked to do once the three filter commands are out
BringUpOps ==
    << <<"CLRRTS">>, <<"SETRTS">>,
       <<"write", <<170, 85, 0, 17, 0, 0, 16, 3>>>>,
       <<"write", <<170, 85, 0, 33, 0, 0, 32, 3>>>>,
       <<"write", <<170, 85, 0, 49, 0, 0, 48, 3>>>> >>

IsPrefix(p, q) == Len(p) <= Len(q) /\ SubSeq(q, 1, Len(p)) = p

\* C11: when the port opens, what main asks of it is, in this order, RTS
\* cleared, RTS set, command (1,1), command (2,1), command (3,1); the first
\* read comes only after all five, nothing is asked of the port afterwards,
\* and no byte reaches parser() before the third command is written.
C11_BringUpOrder ==
    /\ [](IsPrefix(serial.ops, BringUpOps))
    /\ [](pc \in {"tick", "read", "body", "finish"} => serial.ops = BringUpOps)
    /\ [][(line' # line \/ buffer' # buffer \/ size' # size \/ fed' # fed)
              => /\ serial.ops = BringUpOps
                 /\ pc \in {"read", "body"}]_vars
    /\ [](fed # <<>> => serial.ops = BringUpOps)

\* the loop has read bytes and handed them to parser() after the bring-up
C11_Witness ==
    /\ pc = "tick" /\ fed # <<>> /\ Len(fed) >= MidChunk
    /\ serial.ops = BringUpOps


\* ---------------------------------------------------------------- properties of a whole collection

\* q holds one well-formed frame from index i: AA 55, 36 payload bytes, their 16-bit sum
WellFormedAt(q, i) ==
    /\ q[i] = 170 /\ q[i + 1] = 85
    /\ U16(SumBytes(q, i, i + 37)) = 256 * q[i + 38] + q[i + 39]

InLoop == pc \in {"tick", "read", "body"}

\* main has returned 0 with more than 19200 packets counted, the port deleted
\* and both files closed
Collected ==
    /\ pc = "exited" /\ ret = <<0>>
    /\ packet > QuotaPackets
    /\ closed = {"serial", "out_eeg", "out_gs"}
    /\ serial.status = "deleted"

\* C12: in the collection loop, with time going by and well-formed frames
\* arriving without end, the loop is eventually left, with more than 19200
\* packets counted, and the port and both output files are then closed.
C12_Terminates == InLoop ~> Collected


\* the port did not open
OpenFailed == serial.status \notin {"closed", "ERR_OK", "deleted"}

\* main has left the collection loop and gone through the statements after it
AfterLoop == serial.status = "deleted"

\* C13: when the port's status after opening is not OK, main reports the status
\* and returns a non-zero code, and it has opened no output file, asked nothing
\* of the port (no RTS change, no command), read nothing and given parser()
\* nothing; a run that completes its collection returns 0.
C13_OpenFailureExits ==
    /\ OpenFailed =>
          /\ pc = "exited"
          /\ Len(ret) = 1 /\ ret[1] # 0
          /\ out_err = << <<"Serial error", serial.status>> >>
          /\ ~fileOk.eeg /\ ~fileOk.gs
          /\ serial.ops = <<>>
          /\ size = 0 /\ buffer = <<>> /\ fed = <<>>
          /\ G = [GStart EXCEPT !.out_err = out_err]
          /\ closed = {}
    /\ AfterLoop => (pc = "exited" /\ ret = <<0>>)


\* ---------------------------------------------------------------- further properties of parser()

\* C14: in every EEG record the config field is word 9's 16-bit pattern
\* zero-extended to 32 bits: its upper four hex digits are 0000, also when
\* word 9 is negative; right after a validation the lower four are word 9's
\* pattern.
C14_ConfigZeroExtended ==
    /\ [](\A k \in 1..Len(out_eeg) : out_eeg[k][4][1] = 0)
    /\ [][packet' # packet =>
             out_eeg'[Len(out_eeg')][4] = <<0, Lo16(data1'[9])>>]_vars


\* the byte of a one-byte call completes a frame whose checksum matches
Validates == Phase = 4 /\ U16(MsgCRC + NewByte) = Crc

\* C15: the packet counter starts at 0 and is the number of validated packets
\* modulo 65536: a validation adds exactly 1, nothing else changes it, it never
\* goes down except from 65535 to 0 on the next validation, and that wrap
\* neither ends the process nor stops the parsing.
C15_CounterWraps ==
    /\ [](packet = Len(out_eeg) % 65536)
    /\ [](packet \in 0..65535 /\ ~fault)
    /\ [][OneByteCall =>
            /\ Validates => packet' = (packet + 1) % 65536
            /\ ~Validates => packet' = packet
            /\ packet' < packet => (packet = 65535 /\ packet' = 0)
            /\ Len(out_eeg') = Len(out_eeg) + (IF Validates THEN 1 ELSE 0)]_vars

\* the counter has gone round and the packets after the wrap were validated too
C15_Witness ==
    /\ Len(out_eeg) > 65536
    /\ packet = Len(out_eeg) - 65536
    /\ out_eeg[65536][1] = 0 /\ out_eeg[65535][1] = 65535
    /\ out_eeg[Len(out_eeg)][1] = packet
    /\ ~fault


\* C16: the payload offset LocalIndex stays within 0..36; a payload byte is
\* stored only with offset <= 35, so at word index 0..17; Phase 2 is held only
\* with offset <= 35; and Phase 3 is entered exactly on the byte that brings
\* the offset to 36, the 36th payload byte after the 0x55.
C16_PayloadOffset ==
    /\ [](LocalIndex \in 0..36 /\ DOMAIN data1 = 0..17)
    /\ [](Phase = 2 => /\ LocalIndex <= 35
                       /\ (LocalIndex \div 2) \in 0..17
                       /\ Len(fed) > LocalIndex
                       /\ fed[Len(fed) - LocalIndex] = 85)
    /\ [](Phase \in {3, 4} => LocalIndex = 36)
    /\ [][(OneByteCall /\ Phase = 2) =>
            /\ LocalIndex' = LocalIndex + 1
            /\ Phase' = IF LocalIndex' = 36 THEN 3 ELSE 2
            /\ \A k \in 0..17 : k # LocalIndex \div 2 => data1'[k] = data1[k]]_vars
    /\ [][(OneByteCall /\ Phase' = 3) =>
            /\ Phase = 2 /\ LocalIndex = 35
            /\ fed'[Len(fed') - 36] = 85]_vars

\* the 36th payload byte of a frame has just been taken, one byte at a time
C16_Witness == Phase = 3 /\ LocalIndex = 36 /\ size = 1 /\ Len(fed) >= 38


\* no byte of the call's buffer is 0xAA
NoMagic1(buf) == \A j \in 1..Len(buf) : buf[j] # 170

\* what a stream q leaves behind when parsed from the start
After(q) == parser(GStart, q)

\* C17: in Phase 0 a call whose bytes are all other than 0xAA changes nothing
\* of the parser's state and writes nothing; so a stream with such a prefix
\* leaves the same records, errors and state as the stream without it; and the
\* false magic AA 56 followed by a well-formed frame yields exactly one record.
C17_GarbagePrefix ==
    /\ [][(Phase = 0 /\ fed' # fed /\ NoMagic1(buffer')) => UNCHANGED parserVars]_vars
    /\ [](Len(fed) >= GarbageLen /\ SubSeq(fed, 1, GarbageLen) = Garbage
            => G = After(SubSeq(fed, GarbageLen + 1, Len(fed))))
    /\ [](\A f \in {FrameOnes, FrameEdge} :
            fed = FalseMagic \o f =>
               /\ packet = 1 /\ out_err = <<>>
               /\ out_eeg = After(f).out_eeg /\ out_gs = After(f).out_gs)

\* a frame behind a garbage prefix has been validated
C17_Witness ==
    /\ Len(fed) = GarbageLen + FrameLen
    /\ SubSeq(fed, 1, GarbageLen) = Garbage
    /\ packet = 1 /\ Len(out_eeg) = 1


\* the packet counters of a file's records, in the order written
Counters(f) == [k \in 1..Len(f) |-> f[k][1]]

StrictlyIncreasing(c) == \A i, j \in 1..Len(c) : i < j => c[i] < c[j]

\* C18: both files only grow at their end; short of a counter wrap the packet
\* counters in each file are strictly increasing; every counter in a GS record
\* occurs in exactly one EEG record; a GS record is written together with the
\* EEG record of the same packet.
C18_RecordOrder ==
    /\ [][IsPrefix(out_eeg, out_eeg') /\ IsPrefix(out_gs, out_gs')]_vars
    /\ [](StrictlyIncreasing(Counters(out_eeg)) /\ StrictlyIncreasing(Counters(out_gs)))
    /\ [](\A g \in 1..Len(out_gs) :
            Cardinality({k \in 1..Len(out_eeg) : out_eeg[k][1] = out_gs[g][1]}) = 1)
    /\ [][(OneByteCall /\ out_gs' # out_gs) =>
            /\ Len(out_gs') = Len(out_gs) + 1 /\ Len(out_eeg') = Len(out_eeg) + 1
            /\ out_gs'[Len(out_gs')][1] = packet'
            /\ out_eeg'[Len(out_eeg')][1] = packet']_vars

\* two packets were validated and only the second has a GS record
C18_Witness ==
    /\ Len(out_eeg) = 2 /\ Len(out_gs) = 1
    /\ out_gs[1][1] = 2 /\ out_eeg[2][1] = 2


\* the last n bytes fed are a well-formed frame, the first FrameLen of them,
\* and the parser was in Phase 0 when its first byte came
FrameBegan(n) ==
    /\ Len(fed) >= n
    /\ WellFormedAt(fed, Len(fed) - n + 1)
    /\ PhaseAfter(Len(fed) - n) = 0

\* the counter when the frame that began n bytes ago began
PacketBefore(n) == After(SubSeq(fed, 1, Len(fed) - n)).packet

\* C19 as stated: a well-formed frame (AA 55, 36 payload bytes, two checksum
\* bytes) that begins with the parser in Phase 0 is validated exactly on its
\* 42nd byte, so one byte earlier the counter has not moved yet.
C19_ValidatedOn42nd == FrameBegan(41) => packet = PacketBefore(41)

\* C19: a well-formed frame that begins with the parser in Phase 0 is 40 bytes
\* long and is validated exactly on its 40th byte, whatever its payload and
\* checksum bytes are: the counter has not moved after 39 bytes, after the 40th
\* it is one more, one EEG record and no error line was added and the parser
\* is in Phase 0 again; N frames back to back from the initial state give N
\* EEG records with counters 1..N and no error line.
C19_FrameValidated ==
    /\ FrameLen = 40
    /\ FrameBegan(FrameLen) =>
          LET a == After(SubSeq(fed, 1, Len(fed) - FrameLen))
              b == After(SubSeq(fed, 1, Len(fed) - 1))
          IN  /\ b.packet = a.packet /\ b.out_eeg = a.out_eeg
              /\ packet = a.packet + 1
              /\ Len(out_eeg) = Len(a.out_eeg) + 1
              /\ out_eeg[Len(out_eeg)][1] = packet
              /\ out_err = a.out_err
              /\ Phase = 0
    /\ \A f \in {FrameOnes, FrameEdge} :
          /\ fed = f => (Counters(out_eeg) = <<1>> /\ out_err = <<>>)
          /\ \A g \in {FrameOnes, FrameEdge} :
                fed = f \o g => (Counters(out_eeg) = <<1, 2>> /\ out_err = <<>>)

\* two frames back to back, the first with AA and 55 in its payload, have
\* been validated byte by byte
C19_Witness ==
    /\ fed = FrameEdge \o FrameOnes
    /\ size = 1
    /\ packet = 2 /\ Phase = 0


\* ---------------------------------------------------------------- the quota test

\* whole frames in a full buffer
FramesPerRead == BufSize \div FrameLen

\* main has left the collection loop through its break
LeftLoop == pc \in {"finish", "exited"} /\ ~OpenFailed

\* the quota is tested only after a read that was not empty and after
\* parser() has been through the whole buffer; an empty read changes nothing
QuotaTestedAfterChunk ==
    /\ [][(pc' = "finish" /\ pc # "finish") =>
            /\ size' # 0
            /\ fed' = buffer'
            /\ packet' > QuotaPackets]_vars
    /\ [][(pc = "body" /\ size = 0) => (pc' = "tick" /\ UNCHANGED parserVars)]_vars
    /\ [](pc \in {"tick", "read"} => packet <= QuotaPackets)

\* C20 as stated: the quota is tested only after a non-empty read and a whole
\* chunk, the loop is not left while the counter is at most 19200, and on
\* leaving it the counter and the number of EEG records lie between 19201 and
\* 19200 + 24.
C20_AtMost24Over ==
    /\ QuotaTestedAfterChunk
    /\ [](LeftLoop => /\ packet > QuotaPackets
                      /\ packet <= QuotaPackets + 24
                      /\ Len(out_eeg) = packet)

\* C20: the same with the upper end at 19200 + 25, the 25 frames of 40 bytes
\* that a 1000-byte buffer can complete.
C20_AtMost25Over ==
    /\ QuotaTestedAfterChunk
    /\ [](LeftLoop => /\ packet > QuotaPackets
                      /\ packet <= QuotaPackets + FramesPerRead
                      /\ Len(out_eeg) = packet)

\* the loop was left by a buffer that began with the counter at 19200 and
\* completed 25 frames
C20_Witness ==
    /\ pc = "finish"
    /\ packet = QuotaPackets + FramesPerRead
    /\ FramesPerRead = 25
    /\ Len(out_eeg) = packet

====
